---- MODULE Spec2Model ----
\* Ingestion (populate_database) and reset (clear_chroma_database) of the
\* Chroma vector store: chunk-identifier assignment, the diff against the
\* identifiers already stored, the upsert of the new chunks and the deletion of
\* all records.  The PDF loader, the text splitter, the embedding function and
\* the store are collaborators: each is modelled by what the code asks of it,
\* and each of their calls may raise.
EXTENDS Integers, Sequences, FiniteSets, TLC

\* ---------------------------------------------------------------- bounds ----
MaxLen    == 5        \* longest chunk sequence given to calculate_chunk_ids alone
MaxPage   == 1        \* pages are 0..MaxPage
MaxChunks == 2        \* most chunks the splitter makes of one document

Sources  == {"doc1.pdf", "doc2.pdf"}
Pages    == 0..MaxPage
Contents == {"old", "new"}      \* two revisions of a page's text
Procs    == {"p1", "p2", "p3"}  \* callers of the two operations
Main     == "p1"                \* the caller of the sequential specification

DATA_PATH   == "data"
CHROMA_PATH == "chroma"

\* ------------------------------------------------------- pure functions ----
\* Python's None for last_page_id: f"{source}:{page}" always holds a ":" and
\* so never equals it.
None == ""

\* f"{source}:{page}"
PageId(chunk) == chunk.source \o ":" \o ToString(chunk.page)

\* the body of the for loop of calculate_chunk_ids: the index of this chunk
NextIndexConstZero(current_page_id, last_page_id, current_chunk_index) == 0
NextIndexNeverReset(current_page_id, last_page_id, current_chunk_index) ==
    IF last_page_id = None THEN 0 ELSE current_chunk_index + 1
NextIndex(current_page_id, last_page_id, current_chunk_index) ==
    IF current_page_id = last_page_id THEN current_chunk_index + 1 ELSE 0

\* f"{current_page_id}:{current_chunk_index}"
ChunkId(current_page_id, current_chunk_index) ==
    current_page_id \o ":" \o ToString(current_chunk_index)

RECURSIVE ChunkIdsLoop(_, _, _, _)
ChunkIdsLoop(chunks, i, last_page_id, current_chunk_index) ==
    IF i > Len(chunks) THEN chunks
    ELSE LET current_page_id == PageId(chunks[i])
             index == NextIndex(current_page_id, last_page_id, current_chunk_index)
             chunk == [source |-> chunks[i].source, page |-> chunks[i].page,
                       text |-> chunks[i].text,
                       id |-> ChunkId(current_page_id, index)]
         IN  ChunkIdsLoop([chunks EXCEPT ![i] = chunk], i + 1, current_page_id, index)

calculate_chunk_ids(chunks) == ChunkIdsLoop(chunks, 1, None, 0)

\* ------------------------------------------------------- collaborators ----
\* A loaded Document: its text is the sequence of the pieces the splitter will
\* cut it into (each at most 800 characters); a page without text has none.
DocChoices(source) ==
    {<< >>} \cup
    { << [source |-> source, page |-> 0, page_content |-> [k \in 1..n |-> c]] >> :
          n \in 0..MaxChunks, c \in Contents }

\* what PyPDFDirectoryLoader(DATA_PATH).load() can return: the pages of the
\* files in file order, no (source, page) twice
Corpora == { a \o b : a \in DocChoices("doc1.pdf"), b \in DocChoices("doc2.pdf") }

\* text_splitter.split_documents: the chunks of each document, in document
\* order, each with a copy of its document's metadata
RECURSIVE split_documents(_)
split_documents(documents) ==
    IF documents = << >> THEN << >>
    ELSE LET d == Head(documents)
         IN  [k \in 1..Len(d.page_content) |->
                 [source |-> d.source, page |-> d.page, text |-> d.page_content[k]]]
             \o split_documents(Tail(documents))

\* the embedding function: one vector per text
Embed(text) == <<"vector", text>>

\* the store: a function from identifier to record
EmptyStore == [id \in {} |-> 0]

\* db.get(include=[])["ids"]: the identifiers of all records
GetIdsNone(db) == {}
GetIds(db) == DOMAIN db

StoreRecord(chunk) ==
    [text |-> chunk.text, vector |-> Embed(chunk.text),
     source |-> chunk.source, page |-> chunk.page]

Ids(chunks) == { chunks[i].id : i \in DOMAIN chunks }

\* db.add_documents(new_chunks, ids=new_chunk_ids): an upsert by identifier
UpsertDropsLast(db, new_chunks) ==
    LET kept == SubSeq(new_chunks, 1, Len(new_chunks) - 1)
    IN  [id \in DOMAIN db \cup Ids(kept) |->
            IF id \in Ids(kept)
            THEN StoreRecord(kept[CHOOSE i \in DOMAIN kept :
                                     /\ kept[i].id = id
                                     /\ \A j \in DOMAIN kept : kept[j].id = id => j <= i])
            ELSE db[id]]
RECURSIVE Upsert(_, _)
Upsert(db, new_chunks) ==
    IF new_chunks = << >> THEN db
    ELSE LET c == Head(new_chunks)
             one == [id \in DOMAIN db \cup {c.id} |->
                        IF id = c.id THEN StoreRecord(c) ELSE db[id]]
         IN  Upsert(one, Tail(new_chunks))

\* db.delete(ids=existing_ids)
DeleteKeepFirst(db, ids) ==
    IF ids = {} THEN db
    ELSE LET keep == CHOOSE id \in ids : TRUE
         IN  [id \in (DOMAIN db \ ids) \cup ({keep} \cap DOMAIN db) |-> db[id]]
Delete(db, ids) == [id \in DOMAIN db \ ids |-> db[id]]

\* clear_database(): shutil.rmtree(CHROMA_PATH) leaves no record
RmtreeKeepsRecords(db) == db
Rmtree(db) == EmptyStore

\* add_to_chroma, lines 40-43: the chunks whose id is not in existing_ids
NewChunksAll(chunks_with_ids, existing_ids) == chunks_with_ids
NewChunks(chunks_with_ids, existing_ids) ==
    SelectSeq(chunks_with_ids, LAMBDA chunk : chunk.id \notin existing_ids)

\* add_to_chroma's return value
AddedCountAllChunks(chunks_with_ids, new_chunks) == Len(chunks_with_ids)
AddedCount(chunks_with_ids, new_chunks) ==
    IF Len(new_chunks) > 0 THEN Len(new_chunks) ELSE 0

\* clear_chroma_database: deleted_count = len(existing_ids)
DeletedCountLess(ids) == IF ids = {} THEN 0 ELSE Cardinality(ids) - 1
DeletedCount(ids) == Cardinality(ids)

\* ------------------------------------------------------------- results ----
\* the emoji of the messages are left out
MsgNotFound ==
    "Data directory '" \o DATA_PATH \o "' not found. Please create it and add PDF files."
MsgNoPdf == "No PDF documents found in '" \o DATA_PATH \o "' directory."
MsgPopulated == "Database populated successfully"
MsgNoNew ==
    "No new documents were added. All documents already exist in the database."
MsgError(e) == "Error populating database: " \o e
MsgDeleted(n) == "Deleted " \o ToString(n) \o " documents from Chroma database."
MsgNothing == "No documents to delete in the Chroma database."

\* substring test, Python's `sub in msg`
Contains(msg, sub) ==
    \E i \in 1..(Len(msg) - Len(sub) + 1) : SubSeq(msg, i, i + Len(sub) - 1) = sub

Failure(message) == [success |-> FALSE, message |-> message]
PopulateSuccess(documents, chunks, new_docs_added) ==
    [success |-> TRUE,
     message |-> IF new_docs_added > 0 THEN MsgPopulated ELSE MsgNoNew,
     documents_processed |-> Len(documents),
     chunks_created |-> Len(chunks),
     new_documents_added |-> new_docs_added]
ClearSuccess(deleted_count) ==
    [success |-> TRUE,
     message |-> IF deleted_count > 0 THEN MsgDeleted(deleted_count) ELSE MsgNothing,
     chunks_deleted |-> deleted_count]
NoResult == [pending |-> TRUE]

\* ---------------------------------------------------------------- state ----
VARIABLES
    data_exists,    \* os.path.exists(DATA_PATH)
    corpus,         \* what load_documents() returns while DATA_PATH exists
    chroma_exists,  \* os.path.exists(CHROMA_PATH)
    store,          \* the records of the store at CHROMA_PATH
    pc,             \* per caller: where its operation stands
    op,             \* per caller: the operation it called
    reset,          \* per caller: populate_database's argument
    documents,      \* per caller: populate_database's local
    chunks,         \* per caller: populate_database's local
    existing_ids,   \* per caller: the identifiers fetched by db.get
    new_chunks,     \* per caller: add_to_chroma's local
    result,         \* per caller: the returned dictionary
    raised,         \* per caller: the exception that left the operation
    store0,         \* per caller: the store when the operation was called
    after_ok,       \* per caller: `synced` when the operation was called
    loaded,         \* per caller: load_documents() was called
    embedded,       \* per caller: identifiers of the chunks given to the embedding
    upserted,       \* per caller: identifiers given to db.add_documents
    delete_calls,   \* per caller: number of db.delete calls
    stale,          \* per caller: another caller wrote the store after this
                    \* caller fetched the identifiers and before it wrote
    synced,         \* the last operation to return was a populate_database that
                    \* succeeded, and the data directory was not edited since
    arg,            \* calculate_chunk_ids alone: its argument
    ret,            \* calculate_chunk_ids alone: its return value
    calc_done       \* calculate_chunk_ids alone: it has returned

files  == <<data_exists, corpus>>
locals == <<reset, documents, chunks, existing_ids, new_chunks>>
calls  == <<loaded, embedded, upserted, delete_calls>>
entry  == <<op, store0, after_ok>>
pure   == <<arg, ret, calc_done>>
vars   == <<data_exists, corpus, chroma_exists, store, pc, op, reset, documents, chunks,
            existing_ids, new_chunks, result, raised, store0, after_ok, loaded,
            embedded, upserted, delete_calls, stale, synced, arg, ret, calc_done>>

NoException == "none"

\* caller p writes the store: the identifiers of every other caller that has
\* fetched them and not yet written are out of date
Wrote(p) ==
    stale' = [q \in Procs |->
                 stale[q] \/ (q # p /\ pc[q] \in {"pop_add", "clr_delete"})]

InitCallers ==
    /\ pc = [p \in Procs |-> "idle"]
    /\ op = [p \in Procs |-> "none"]
    /\ reset = [p \in Procs |-> FALSE]
    /\ documents = [p \in Procs |-> << >>]
    /\ chunks = [p \in Procs |-> << >>]
    /\ existing_ids = [p \in Procs |-> {}]
    /\ new_chunks = [p \in Procs |-> << >>]
    /\ result = [p \in Procs |-> NoResult]
    /\ raised = [p \in Procs |-> NoException]
    /\ store0 = [p \in Procs |-> EmptyStore]
    /\ after_ok = [p \in Procs |-> FALSE]
    /\ loaded = [p \in Procs |-> FALSE]
    /\ embedded = [p \in Procs |-> {}]
    /\ upserted = [p \in Procs |-> {}]
    /\ delete_calls = [p \in Procs |-> 0]
    /\ stale = [p \in Procs |-> FALSE]

InitPure ==
    /\ arg = << >>
    /\ ret = << >>
    /\ calc_done = FALSE

\* a fresh checkout: some data directory, no store yet
Init ==
    /\ data_exists \in BOOLEAN
    /\ corpus \in Corpora
    /\ data_exists = FALSE => corpus = << >>
    /\ chroma_exists = FALSE
    /\ store = EmptyStore
    /\ synced = FALSE
    /\ InitCallers
    /\ InitPure

\* ----------------------------------------------------- populate_database ----
PopulateCall(p, r) ==
    /\ stale' = [stale EXCEPT ![p] = FALSE]
    /\ pc[p] = "idle"
    /\ pc' = [pc EXCEPT ![p] = "pop_reset"]
    /\ op' = [op EXCEPT ![p] = "populate"]
    /\ reset' = [reset EXCEPT ![p] = r]
    /\ store0' = [store0 EXCEPT ![p] = store]
    /\ after_ok' = [after_ok EXCEPT ![p] = synced]
    /\ UNCHANGED <<files, chroma_exists, store, documents, chunks, existing_ids,
                   new_chunks, result, raised, calls, synced, pure>>

\* the except clause of populate_database
PopulateCaught(p, e) ==
    /\ pc' = [pc EXCEPT ![p] = "done"]
    /\ result' = [result EXCEPT ![p] = Failure(MsgError(e))]
    /\ synced' = FALSE
    /\ UNCHANGED <<raised, entry, pure, files>>

\* lines 91-93: if reset: clear_database()
PopReset(p) ==
    /\ pc[p] = "pop_reset"
    /\ IF reset[p] /\ chroma_exists
       THEN /\ store' = Rmtree(store)
            /\ chroma_exists' = FALSE
            /\ Wrote(p)
       ELSE UNCHANGED <<store, chroma_exists, stale>>
    /\ pc' = [pc EXCEPT ![p] = "pop_load"]
    /\ UNCHANGED <<files, locals, result, raised, entry, calls, synced, pure>>

\* shutil.rmtree raises: the directory stays, with all of its records or none
PopResetFail(p) ==
    /\ Wrote(p)
    /\ pc[p] = "pop_reset"
    /\ reset[p] /\ chroma_exists
    /\ store' \in {store, Rmtree(store)}
    /\ PopulateCaught(p, "rmtree failed")
    /\ UNCHANGED <<chroma_exists, locals, calls>>

\* lines 96-100: DATA_PATH does not exist
PopNoDataLoads(p) ==
    /\ UNCHANGED stale
    /\ pc[p] = "pop_load"
    /\ ~data_exists
    /\ loaded' = [loaded EXCEPT ![p] = TRUE]
    /\ pc' = [pc EXCEPT ![p] = "done"]
    /\ result' = [result EXCEPT ![p] = Failure(MsgNotFound)]
    /\ synced' = FALSE
    /\ UNCHANGED <<files, chroma_exists, store, locals, raised, entry, embedded,
                   upserted, delete_calls, pure>>
PopNoData(p) ==
    /\ UNCHANGED stale
    /\ pc[p] = "pop_load"
    /\ ~data_exists
    /\ pc' = [pc EXCEPT ![p] = "done"]
    /\ result' = [result EXCEPT ![p] = Failure(MsgNotFound)]
    /\ synced' = FALSE
    /\ UNCHANGED <<files, chroma_exists, store, locals, raised, entry, calls, pure>>

\* lines 103-111: load_documents(), the empty check, split_documents()
PopLoad(p) ==
    /\ UNCHANGED stale
    /\ pc[p] = "pop_load"
    /\ data_exists
    /\ documents' = [documents EXCEPT ![p] = corpus]
    /\ loaded' = [loaded EXCEPT ![p] = TRUE]
    /\ IF corpus = << >>
       THEN /\ pc' = [pc EXCEPT ![p] = "done"]
            /\ result' = [result EXCEPT ![p] = Failure(MsgNoPdf)]
            /\ synced' = FALSE
            /\ UNCHANGED chunks
       ELSE /\ pc' = [pc EXCEPT ![p] = "pop_get"]
            /\ chunks' = [chunks EXCEPT ![p] = split_documents(corpus)]
            /\ UNCHANGED <<result, synced>>
    /\ UNCHANGED <<files, chroma_exists, store, reset, existing_ids, new_chunks,
                   raised, entry, embedded, upserted, delete_calls, pure>>

\* load_documents() raises, or split_documents() does on the loaded documents
PopLoadFail(p) ==
    /\ UNCHANGED stale
    /\ pc[p] = "pop_load"
    /\ data_exists
    /\ loaded' = [loaded EXCEPT ![p] = TRUE]
    /\ \/ /\ PopulateCaught(p, "load_documents failed")
          /\ UNCHANGED documents
       \/ /\ corpus # << >>
          /\ documents' = [documents EXCEPT ![p] = corpus]
          /\ PopulateCaught(p, "split_documents failed")
    /\ UNCHANGED <<chroma_exists, store, reset, chunks, existing_ids, new_chunks,
                   embedded, upserted, delete_calls>>

\* add_to_chroma, lines 27-43: open the store, assign the identifiers, fetch
\* the existing identifiers, keep the chunks whose identifier is new
PopGet(p) ==
    /\ UNCHANGED stale
    /\ pc[p] = "pop_get"
    /\ chroma_exists' = TRUE
    /\ chunks' = [chunks EXCEPT ![p] = calculate_chunk_ids(chunks[p])]
    /\ existing_ids' = [existing_ids EXCEPT ![p] = GetIds(store)]
    /\ new_chunks' = [new_chunks EXCEPT ![p] =
                         NewChunks(calculate_chunk_ids(chunks[p]), GetIds(store))]
    /\ pc' = [pc EXCEPT ![p] = "pop_add"]
    /\ UNCHANGED <<files, store, reset, documents, result, raised, entry, calls,
                   synced, pure>>

\* Chroma(...) raises, or db.get does
PopGetFail(p) ==
    /\ UNCHANGED stale
    /\ pc[p] = "pop_get"
    /\ \/ /\ PopulateCaught(p, "store open failed")
          /\ UNCHANGED <<chroma_exists, chunks>>
       \/ /\ chroma_exists' = TRUE
          /\ chunks' = [chunks EXCEPT ![p] = calculate_chunk_ids(chunks[p])]
          /\ PopulateCaught(p, "store get failed")
    /\ UNCHANGED <<store, reset, documents, existing_ids, new_chunks, calls>>

\* add_to_chroma, lines 45-53, and populate_database, lines 114-125
PopAdd(p) ==
    /\ pc[p] = "pop_add"
    /\ IF Len(new_chunks[p]) > 0
       THEN /\ embedded' = [embedded EXCEPT ![p] = Ids(new_chunks[p])]
            /\ upserted' = [upserted EXCEPT ![p] = Ids(new_chunks[p])]
            /\ store' = Upsert(store, new_chunks[p])
            /\ chroma_exists' = TRUE
            /\ Wrote(p)
       ELSE UNCHANGED <<embedded, upserted, store, chroma_exists, stale>>
    /\ result' = [result EXCEPT ![p] =
                     PopulateSuccess(documents[p], chunks[p],
                                     AddedCount(chunks[p], new_chunks[p]))]
    /\ pc' = [pc EXCEPT ![p] = "done"]
    /\ synced' = TRUE
    /\ UNCHANGED <<files, locals, raised, entry, loaded, delete_calls, pure>>

\* the embedding raises (nothing is written), or the upsert raises after it
\* wrote the first k chunks
PopAddFail(p) ==
    /\ pc[p] = "pop_add"
    /\ Len(new_chunks[p]) > 0
    /\ embedded' = [embedded EXCEPT ![p] = Ids(new_chunks[p])]
    /\ \/ /\ PopulateCaught(p, "embedding failed")
          /\ UNCHANGED <<store, upserted, chroma_exists, stale>>
       \/ /\ upserted' = [upserted EXCEPT ![p] = Ids(new_chunks[p])]
          /\ Wrote(p)
          /\ \E k \in 0..(Len(new_chunks[p]) - 1) :
                 store' = Upsert(store, SubSeq(new_chunks[p], 1, k))
          /\ chroma_exists' = TRUE
          /\ PopulateCaught(p, "store upsert failed")
    /\ UNCHANGED <<locals, loaded, delete_calls>>

\* ------------------------------------------------- clear_chroma_database ----
ClearCall(p) ==
    /\ stale' = [stale EXCEPT ![p] = FALSE]
    /\ pc[p] = "idle"
    /\ pc' = [pc EXCEPT ![p] = "clr_get"]
    /\ op' = [op EXCEPT ![p] = "clear"]
    /\ store0' = [store0 EXCEPT ![p] = store]
    /\ after_ok' = [after_ok EXCEPT ![p] = synced]
    /\ UNCHANGED <<files, chroma_exists, store, locals, result, raised, calls,
                   synced, pure>>

\* clear_chroma_database has no try: the exception leaves it
ClearRaises(p, e) ==
    /\ pc' = [pc EXCEPT ![p] = "done"]
    /\ raised' = [raised EXCEPT ![p] = e]
    /\ synced' = FALSE
    /\ UNCHANGED <<result, entry, pure, files>>

\* lines 14-22: open the store, fetch the identifiers
ClrGet(p) ==
    /\ UNCHANGED stale
    /\ pc[p] = "clr_get"
    /\ chroma_exists' = TRUE
    /\ existing_ids' = [existing_ids EXCEPT ![p] = GetIds(store)]
    /\ pc' = [pc EXCEPT ![p] = "clr_delete"]
    /\ UNCHANGED <<files, store, reset, documents, chunks, new_chunks, result,
                   raised, entry, calls, synced, pure>>

ClrGetFail(p) ==
    /\ UNCHANGED stale
    /\ pc[p] = "clr_get"
    /\ \/ /\ ClearRaises(p, "store open failed")
          /\ UNCHANGED chroma_exists
       \/ /\ chroma_exists' = TRUE
          /\ ClearRaises(p, "store get failed")
    /\ UNCHANGED <<store, locals, calls>>

\* lines 24-34
ClrDelete(p) ==
    /\ pc[p] = "clr_delete"
    /\ IF DeletedCount(existing_ids[p]) > 0
       THEN /\ store' = Delete(store, existing_ids[p])
            /\ delete_calls' = [delete_calls EXCEPT ![p] = @ + 1]
            /\ Wrote(p)
       ELSE UNCHANGED <<store, delete_calls, stale>>
    /\ result' = [result EXCEPT ![p] = ClearSuccess(DeletedCount(existing_ids[p]))]
    /\ pc' = [pc EXCEPT ![p] = "done"]
    /\ synced' = FALSE
    /\ UNCHANGED <<files, chroma_exists, locals, raised, entry, loaded, embedded,
                   upserted, pure>>

\* db.delete raises: all of the identifiers are deleted, or none
ClrDeleteFail(p) ==
    /\ Wrote(p)
    /\ pc[p] = "clr_delete"
    /\ DeletedCount(existing_ids[p]) > 0
    /\ delete_calls' = [delete_calls EXCEPT ![p] = @ + 1]
    /\ store' \in {store, Delete(store, existing_ids[p])}
    /\ ClearRaises(p, "store delete failed")
    /\ UNCHANGED <<chroma_exists, locals, loaded, embedded, upserted>>

\* ---------------------------------------------------------- environment ----
\* the caller takes the result and is ready for its next call
Ack(p) ==
    /\ stale' = [stale EXCEPT ![p] = FALSE]
    /\ pc[p] = "done"
    /\ pc' = [pc EXCEPT ![p] = "idle"]
    /\ op' = [op EXCEPT ![p] = "none"]
    /\ reset' = [reset EXCEPT ![p] = FALSE]
    /\ documents' = [documents EXCEPT ![p] = << >>]
    /\ chunks' = [chunks EXCEPT ![p] = << >>]
    /\ existing_ids' = [existing_ids EXCEPT ![p] = {}]
    /\ new_chunks' = [new_chunks EXCEPT ![p] = << >>]
    /\ result' = [result EXCEPT ![p] = NoResult]
    /\ raised' = [raised EXCEPT ![p] = NoException]
    /\ store0' = [store0 EXCEPT ![p] = EmptyStore]
    /\ after_ok' = [after_ok EXCEPT ![p] = FALSE]
    /\ loaded' = [loaded EXCEPT ![p] = FALSE]
    /\ embedded' = [embedded EXCEPT ![p] = {}]
    /\ upserted' = [upserted EXCEPT ![p] = {}]
    /\ delete_calls' = [delete_calls EXCEPT ![p] = 0]
    /\ UNCHANGED <<files, chroma_exists, store, synced, pure>>

\* somebody edits the data directory while no operation runs
EditData ==
    /\ UNCHANGED stale
    /\ \A p \in Procs : pc[p] = "idle"
    /\ data_exists' \in BOOLEAN
    /\ corpus' \in Corpora
    /\ data_exists' = FALSE => corpus' = << >>
    /\ <<data_exists', corpus'>> # <<data_exists, corpus>>
    /\ synced' = FALSE
    /\ UNCHANGED <<chroma_exists, store, pc, locals, result, raised, entry, calls,
                   pure>>

Step(p) ==
    \/ PopReset(p) \/ PopResetFail(p)
    \/ PopNoData(p) \/ PopLoad(p) \/ PopLoadFail(p)
    \/ PopGet(p) \/ PopGetFail(p)
    \/ PopAdd(p) \/ PopAddFail(p)
    \/ ClrGet(p) \/ ClrGetFail(p)
    \/ ClrDelete(p) \/ ClrDeleteFail(p)

\* one caller, one operation at a time
Next ==
    \/ \E r \in BOOLEAN : PopulateCall(Main, r)
    \/ ClearCall(Main)
    \/ Step(Main)
    \/ Ack(Main)
    \/ EditData

Spec == Init /\ [][Next]_vars

\* several callers at once, each running one operation: every step that reads
\* or writes the store is a step of its own, and nothing orders the callers
\* the data directory of the concurrent runs, when there is one: one file, one
\* page
ConcCorpora == { c \in Corpora : Len(c) = 1 /\ c[1].source = "doc1.pdf" }

ConcInit ==
    /\ data_exists \in BOOLEAN
    /\ corpus \in IF data_exists THEN ConcCorpora ELSE {<< >>}
    /\ chroma_exists = FALSE
    /\ store = EmptyStore
    /\ synced = FALSE
    /\ InitCallers
    /\ InitPure

ConcNext ==
    \E p \in Procs :
        \/ \E r \in BOOLEAN : PopulateCall(p, r)
        \/ ClearCall(p)
        \/ Step(p)

ConcSpec == ConcInit /\ [][ConcNext]_vars

\* calculate_chunk_ids alone, on every sequence of at most MaxLen chunks; a
\* chunk's text is its position in the argument
ChunkSeqs ==
    UNION { { [i \in 1..n |-> [source |-> f[i][1], page |-> f[i][2], text |-> ToString(i)]] :
                f \in [1..n -> Sources \X Pages] } : n \in 0..MaxLen }

PureInit ==
    /\ data_exists = FALSE
    /\ corpus = << >>
    /\ chroma_exists = FALSE
    /\ store = EmptyStore
    /\ synced = FALSE
    /\ InitCallers
    /\ arg \in ChunkSeqs
    /\ ret = << >>
    /\ calc_done = FALSE

Calculate ==
    /\ UNCHANGED stale
    /\ ~calc_done
    /\ ret' = calculate_chunk_ids(arg)
    /\ calc_done' = TRUE
    /\ UNCHANGED <<files, chroma_exists, store, pc, locals, result, raised, entry,
                   calls, synced, arg>>

PureNext == Calculate

PureSpec == PureInit /\ [][PureNext]_vars

\* =============================================================== claims ====
Key(chunk) == <<chunk.source, chunk.page>>
StoreIds(db) == DOMAIN db

\* all chunks of one (source, page) are contiguous
Grouped(cs) ==
    \A i, j, k \in DOMAIN cs : (i < j /\ j < k /\ Key(cs[i]) = Key(cs[k])) => Key(cs[j]) = Key(cs[i])

\* the index the claim gives the i-th chunk
RECURSIVE ExpectedIndex(_, _)
ExpectedIndex(cs, i) ==
    IF i = 1 \/ Key(cs[i]) # Key(cs[i - 1]) THEN 0 ELSE ExpectedIndex(cs, i - 1) + 1

ExpectedId(cs, i) ==
    cs[i].source \o ":" \o ToString(cs[i].page) \o ":" \o ToString(ExpectedIndex(cs, i))

\* C1: on a sequence whose chunks of one (source, page) are contiguous,
\* calculate_chunk_ids gives the i-th chunk the id "<source>:<page>:<index>",
\* index 0 at the start and at every change of (source, page) and one more than
\* the previous index otherwise; the chunks keep their number and their order.
C1_ChunkIds ==
    (calc_done /\ Grouped(arg)) =>
        /\ Len(ret) = Len(arg)
        /\ \A i \in DOMAIN arg :
               /\ ret[i].source = arg[i].source
               /\ ret[i].page = arg[i].page
               /\ ret[i].text = arg[i].text
               /\ ret[i].id = ExpectedId(arg, i)

\* the example of the claim: 3 chunks of doc1.pdf page 0, then 2 of doc2.pdf page 0
C1_Witness ==
    /\ calc_done
    /\ [i \in DOMAIN arg |-> Key(arg[i])] =
           << <<"doc1.pdf", 0>>, <<"doc1.pdf", 0>>, <<"doc1.pdf", 0>>,
              <<"doc2.pdf", 0>>, <<"doc2.pdf", 0>> >>
    /\ [i \in DOMAIN ret |-> ret[i].id] =
           <<"doc1.pdf:0:0", "doc1.pdf:0:1", "doc1.pdf:0:2", "doc2.pdf:0:0", "doc2.pdf:0:1">>

\* C3: when the chunks of one (source, page) are contiguous in the argument of
\* calculate_chunk_ids, no two chunks of the result have the same id.
C3_UniqueIds ==
    (calc_done /\ Grouped(arg)) =>
        \A i, j \in DOMAIN ret : i # j => ret[i].id # ret[j].id

\* several groups, one of them with several chunks
C3_Witness ==
    /\ calc_done
    /\ Grouped(arg)
    /\ Len(arg) >= 4
    /\ Cardinality({Key(arg[i]) : i \in DOMAIN arg}) >= 2
    /\ \E i \in DOMAIN arg : i > 1 /\ Key(arg[i]) = Key(arg[i - 1])
    /\ \A i, j \in DOMAIN ret : i # j => ret[i].id # ret[j].id

\* the operation of caller p has returned or raised
PopulateDone(p) == op[p] = "populate" /\ pc[p] = "done"
ClearDone(p) == op[p] = "clear" /\ pc[p] = "done"
\* populate_database returned from its except clause
Caught(r) == ~r.success /\ Contains(r.message, "Error populating database: ")

\* C2: a populate_database(reset=False) called right after a populate_database
\* that succeeded, on the unchanged data directory, leaves the store as it was
\* and, unless a collaborator raises, returns success with
\* new_documents_added = 0.
C2_Idempotent ==
    \A p \in Procs :
        (PopulateDone(p) /\ ~reset[p] /\ after_ok[p]) =>
            /\ store = store0[p]
            /\ \/ Caught(result[p])
               \/ result[p].success /\ result[p].new_documents_added = 0

C2_Witness ==
    \E p \in Procs :
        /\ PopulateDone(p) /\ ~reset[p] /\ after_ok[p]
        /\ result[p].success
        /\ result[p].chunks_created >= 2
        /\ result[p].new_documents_added = 0
        /\ StoreIds(store) = Ids(chunks[p])

\* C4: a clear_chroma_database that no collaborator fails returns success with
\* chunks_deleted = the number N of records the store held, leaves the store
\* without identifiers, and issues no delete when N = 0.
C4_ClearAll ==
    \A p \in Procs :
        (ClearDone(p) /\ raised[p] = NoException) =>
            /\ result[p].success
            /\ result[p].chunks_deleted = Cardinality(StoreIds(store0[p]))
            /\ StoreIds(store) = {}
            /\ StoreIds(store0[p]) = {} => delete_calls[p] = 0

C4_Witness ==
    \E p \in Procs :
        /\ ClearDone(p) /\ raised[p] = NoException
        /\ Cardinality(StoreIds(store0[p])) >= 2
        /\ result[p].chunks_deleted = Cardinality(StoreIds(store0[p]))
        /\ delete_calls[p] = 1
        /\ StoreIds(store) = {}

\* C5: no failure of a collaborator leaves populate_database or
\* clear_chroma_database as an exception: each returns a result.
C5_NoEscape ==
    \A p \in Procs :
        pc[p] = "done" => (raised[p] = NoException /\ result[p] # NoResult)

\* C6 as stated: with no data directory populate_database, for either value of
\* reset, fails with "not found", loads nothing and leaves the store's records
\* as they were (stated of the runs in which no collaborator raised).
C6_Original ==
    \A p \in Procs :
        (PopulateDone(p) /\ ~data_exists /\ ~Caught(result[p])) =>
            /\ ~result[p].success
            /\ Contains(result[p].message, "not found")
            /\ ~loaded[p] /\ documents[p] = << >>
            /\ store = store0[p]

\* C6 amended: with no data directory populate_database fails and loads
\* nothing; with reset=False the message holds "not found" and the store is as
\* it was; with reset=True the store directory is removed first, so the message
\* holds "not found" and the store is empty, unless the removal raised.
C6_Amended ==
    \A p \in Procs :
        (PopulateDone(p) /\ ~data_exists) =>
            /\ ~result[p].success
            /\ ~loaded[p] /\ documents[p] = << >>
            /\ ~reset[p] =>
                   /\ Contains(result[p].message, "not found")
                   /\ store = store0[p]
            /\ reset[p] =>
                   \/ /\ Contains(result[p].message, "not found")
                      /\ store = EmptyStore
                      /\ ~chroma_exists
                   \/ result[p].message = MsgError("rmtree failed")

\* reset=True, no data directory: the records are gone and the call failed
C6_Witness ==
    \E p \in Procs :
        /\ PopulateDone(p) /\ ~data_exists /\ reset[p]
        /\ StoreIds(store0[p]) # {}
        /\ store = EmptyStore
        /\ Contains(result[p].message, "not found")

\* C7: during and after a populate_database(reset=False), whether it succeeds
\* or fails, every identifier the store held at the call is still there with
\* the same record, and no chunk with such an identifier was embedded or given
\* to the upsert.
C7_OnlyAdds ==
    \A p \in Procs :
        (op[p] = "populate" /\ ~reset[p]) =>
            \A id \in StoreIds(store0[p]) :
                /\ id \in StoreIds(store)
                /\ store[id] = store0[p][id]
                /\ id \notin embedded[p]
                /\ id \notin upserted[p]

\* a run that added chunks and met a stored identifier whose record holds
\* another text than the chunk it computed
C7_Witness ==
    \E p \in Procs :
        /\ PopulateDone(p) /\ ~reset[p] /\ result[p].success
        /\ upserted[p] # {}
        /\ \E i \in DOMAIN chunks[p] :
               /\ chunks[p][i].id \in StoreIds(store0[p])
               /\ store[chunks[p][i].id].text # chunks[p][i].text

\* the identifiers the store held when add_to_chroma started
Base(p) == IF reset[p] THEN {} ELSE StoreIds(store0[p])

\* C8: a populate_database that succeeds reports the number of loaded
\* documents, the number of chunks of the splitter and, as new_documents_added,
\* the number of identifiers this run added to the store, between 0 and
\* chunks_created.
C8_Counts ==
    \A p \in Procs :
        (PopulateDone(p) /\ result[p].success) =>
            /\ result[p].documents_processed = Len(corpus)
            /\ result[p].chunks_created = Len(split_documents(corpus))
            /\ Base(p) \subseteq StoreIds(store)
            /\ result[p].new_documents_added = Cardinality(StoreIds(store) \ Base(p))
            /\ 0 <= result[p].new_documents_added
            /\ result[p].new_documents_added <= result[p].chunks_created

\* some chunks were new, some were not
C8_Witness ==
    \E p \in Procs :
        /\ PopulateDone(p) /\ result[p].success
        /\ result[p].documents_processed = 2
        /\ 0 < result[p].new_documents_added
        /\ result[p].new_documents_added < result[p].chunks_created

\* the identifiers a run on the current data directory computes
ComputedChunks == calculate_chunk_ids(split_documents(corpus))

\* C9: after a populate_database(reset=True) that succeeds the store holds
\* exactly the identifiers computed in the run, each with the record of its
\* chunk, and new_documents_added = chunks_created.
C9_ResetRebuilds ==
    \A p \in Procs :
        (PopulateDone(p) /\ reset[p] /\ result[p].success) =>
            /\ StoreIds(store) = Ids(ComputedChunks)
            /\ \A i \in DOMAIN ComputedChunks :
                   store[ComputedChunks[i].id] = StoreRecord(ComputedChunks[i])
            /\ \A id \in StoreIds(store0[p]) \ Ids(ComputedChunks) : id \notin StoreIds(store)
            /\ result[p].new_documents_added = result[p].chunks_created

\* the store held an identifier the run does not compute, and one it does
C9_Witness ==
    \E p \in Procs :
        /\ PopulateDone(p) /\ reset[p] /\ result[p].success
        /\ StoreIds(store0[p]) \ Ids(ComputedChunks) # {}
        /\ StoreIds(store0[p]) \cap Ids(ComputedChunks) # {}
        /\ StoreIds(store) = Ids(ComputedChunks)

PopulateOK(p) == PopulateDone(p) /\ ~reset[p] /\ result[p].success
ClearOK(p) == ClearDone(p) /\ raised[p] = NoException /\ result[p].success

\* C10: callers are not coordinated: nothing but the order of the steps keeps a
\* caller's fetched identifiers true.  A populate_database that succeeds reports
\* the number of identifiers its upsert added, and a clear_chroma_database that
\* returns leaves the store empty, whenever no other caller wrote the store
\* between its fetch and its own write; the interleavings of the claim, in
\* which another caller did, are the states of C10_Witness.
C10_Step ==
    \A p \in Procs :
        /\ (pc[p] = "pop_add" /\ pc'[p] = "done" /\ result'[p].success /\ ~stale[p]) =>
               /\ result'[p].new_documents_added =
                      Cardinality(StoreIds(store') \ StoreIds(store))
               /\ upserted'[p] \cap StoreIds(store) = {}
        /\ (pc[p] = "clr_delete" /\ pc'[p] = "done" /\ raised'[p] = NoException
               /\ ~stale[p]) =>
               /\ StoreIds(store') = {}
               /\ result'[p].chunks_deleted = Cardinality(StoreIds(store))

C10_Uncoordinated == [][C10_Step]_vars

\* all three callers have returned: one populate run upserted between the
\* other's fetch and upsert, both upserted the same identifiers and together
\* report more new documents than the store holds identifiers; the clear
\* fetched no identifier, a populate run upserted before it returned, and the
\* store it reports cleared is not empty
C10_Witness ==
    \E p, q, c \in Procs :
        /\ p # q
        /\ PopulateOK(p) /\ PopulateOK(q) /\ ClearOK(c)
        /\ stale[q] /\ stale[c]
        /\ upserted[p] \cap upserted[q] # {}
        /\ result[c].chunks_deleted = 0
        /\ result[p].new_documents_added + result[q].new_documents_added
               > Cardinality(StoreIds(store))
        /\ StoreIds(store) # {}

====
